---- MODULE Spec2Model ----
(***************************************************************************)
(* dynamic_bitset (dynamic_bitset.hh): a bit set stored in a byte vector.  *)
(*                                                                         *)
(* The two fields of the class are the variables _num_bits and _data.      *)
(* Every member function is one action.  std::vector::operator[] does no   *)
(* bounds checking, so an access whose byte index is not below             *)
(* _data.size() is undefined behaviour: the action then chooses between    *)
(* the outcomes a build produces, "crash" (the process dies) and "oob"     *)
(* (the access lands outside the vector: a write leaves the vector's       *)
(* elements as they are, a read yields an arbitrary bit).                  *)
(*                                                                         *)
(* last, prev, query and sized are history variables: the most recent      *)
(* mutating call with the state it started from, the resize before it,     *)
(* the most recent read-only call with what it returned, and whether a     *)
(* sizing call (the nbits constructor or resize) has run.  prev is kept    *)
(* only when the latest call is a resize to more bits than the resize      *)
(* right before it.                                                        *)
(***************************************************************************)
EXTENDS Integers, Sequences, FiniteSets, TLC

VARIABLES _num_bits, _data, sized, last, prev, query

vars == <<_num_bits, _data, sized, last, prev, query>>

\* Largest nbits given to the constructor and to resize.
MaxBits == 23

\* The nbits given to the constructor and to resize: the sizes at a byte
\* boundary, 1, 2 and 4 bits above one, and 7, the last size below the first.
Sizes == {n \in 0 .. MaxBits : n % 8 \in {0, 1, 2, 4} \/ n = 7}

\* Bit positions given to set and operator[]: two in byte 0, one in byte 1.
Positions == {0, 2, 9}

\* uint8_t
ByteWidth == 8

----------------------------------------------------------------------------
(* Bit arithmetic on uint8_t values *)

\* (b >> off) & 0x1
ShiftAnd1(b, off) == (b \div (2 ^ off)) % 2

\* uint8_t(1 << offset)
bitfield(offset) == (2 ^ offset) % (2 ^ ByteWidth)

\* a | b on 8-bit values, bit by bit
ByteOr(a, b) ==
  LET bit(k) == IF ShiftAnd1(a, k) = 1 \/ ShiftAnd1(b, k) = 1 THEN 2 ^ k ELSE 0
  IN  bit(0) + bit(1) + bit(2) + bit(3) + bit(4) + bit(5) + bit(6) + bit(7)

\* a & b on 8-bit values, bit by bit
ByteAnd(a, b) ==
  LET bit(k) == IF ShiftAnd1(a, k) = 1 /\ ShiftAnd1(b, k) = 1 THEN 2 ^ k ELSE 0
  IN  bit(0) + bit(1) + bit(2) + bit(3) + bit(4) + bit(5) + bit(6) + bit(7)

\* the low byte of ~b (the int complement is truncated when stored back)
ByteNot(b) == (2 ^ ByteWidth - 1) - b

----------------------------------------------------------------------------
(* Helpers of the member functions *)

\* size_t byte_loc = pos / 8
byte_loc(pos) == pos \div 8

\* offset = pos % 8
offset(pos) == pos % 8

\* whether _data[byte_loc] is an element of the vector d
InStorage(d, pos) == byte_loc(pos) < Len(d)

\* operator[] where the byte exists: (_data[byte_loc] >> offset) & 0x1
StoredBit(d, pos) == ShiftAnd1(d[byte_loc(pos) + 1], offset(pos)) = 1

\* num_words as the constructor computes it
ctor_num_words(nbits) ==
  IF nbits < 8 THEN 1 ELSE 1 + (nbits - 8) \div 8

\* a resize that refills the vector, as _data.assign(n, 0) would
VectorAssignZero(d, n) == [i \in 1 .. n |-> 0]

\* std::vector<uint8_t>::resize(n): truncate, or append value-initialised bytes
VectorResize(d, n) ==
  IF n <= Len(d) THEN SubSeq(d, 1, n)
  ELSE d \o [i \in 1 .. (n - Len(d)) |-> 0]

\* std::fill_n(_data.begin(), _data.size(), 0)
FillZero(d) == [i \in 1 .. Len(d) |-> 0]

\* the conventional byte count, (nbits + 7) / 8
ceil_num_words(nbits) == (nbits + 7) \div 8

\* num_words as resize computes it
resize_num_words(nbits) ==
  IF nbits < 8 THEN 1 ELSE 1 + (nbits - 8) \div 8

\* the logical positions below n whose byte is not an element of d
OutOfStorage(d, n) == {i \in 0 .. (n - 1) : ~InStorage(d, i)}

\* what (*this)[pos] yields: the stored bit, or the arbitrary bit junk[pos]
\* when the byte read lies outside the vector
Read(d, junk, pos) ==
  IF InStorage(d, pos) THEN StoredBit(d, pos) ELSE junk[pos]

\* the loop of count(): for (i = 0; i < _num_bits; i++) c += (*this)[i] ? 1 : 0
\* (uint32_t c cannot wrap: n stays far below 2^32)
RECURSIVE count_loop(_, _, _, _, _)
count_loop(d, junk, n, i, c) ==
  IF i < n
    THEN count_loop(d, junk, n, i + 1, c + (IF Read(d, junk, i) THEN 1 ELSE 0))
    ELSE c

\* the loop of to_string(): ss << ((*this)[_num_bits - i - 1] ? "1" : "0");
\* the string is the sequence of its characters
RECURSIVE to_string_loop(_, _, _, _, _)
to_string_loop(d, junk, n, i, ss) ==
  IF i < n
    THEN to_string_loop(d, junk, n, i + 1,
                        Append(ss, IF Read(d, junk, n - i - 1) THEN "1" ELSE "0"))
    ELSE ss

----------------------------------------------------------------------------
(* History records *)

Mutation(op, nbits, pos, value, outcome) ==
  [op |-> op, nbits |-> nbits, pos |-> pos, value |-> value,
   nb |-> _num_bits, data |-> _data, outcome |-> outcome]

NoPrev == [op |-> "none", nbits |-> 0, data |-> <<>>]

NoQuery == [op |-> "none", pos |-> 0, retBool |-> FALSE, retCount |-> 0,
            retStr |-> <<>>, outcome |-> "ok"]

\* a crashed process makes no further call
Alive == last.outcome # "crash" /\ query.outcome # "crash"

----------------------------------------------------------------------------
(* Construction *)

\* dynamic_bitset() = default
dynamic_bitset_default ==
  /\ _num_bits = 0
  /\ _data = <<>>
  /\ sized = FALSE
  /\ last = [op |-> "default", nbits |-> 0, pos |-> 0, value |-> FALSE,
             nb |-> 0, data |-> <<>>, outcome |-> "ok"]
  /\ prev = NoPrev
  /\ query = NoQuery

\* explicit dynamic_bitset(size_t nbits)
dynamic_bitset_nbits(nbits) ==
  /\ _num_bits = nbits
  /\ _data = FillZero(VectorResize(<<>>, ctor_num_words(nbits)))
  /\ sized = TRUE
  /\ last = [op |-> "construct", nbits |-> nbits, pos |-> 0, value |-> FALSE,
             nb |-> 0, data |-> <<>>, outcome |-> "ok"]
  /\ prev = NoPrev
  /\ query = NoQuery

Init ==
  \/ dynamic_bitset_default
  \/ \E nbits \in Sizes : dynamic_bitset_nbits(nbits)

----------------------------------------------------------------------------
(* Member functions *)

\* void resize(size_t nbits)
resize(nbits) ==
  /\ Alive
  /\ _num_bits' = nbits
  /\ _data' = VectorResize(_data, resize_num_words(nbits))
  /\ sized' = TRUE
  /\ last' = Mutation("resize", nbits, 0, FALSE, "ok")
  /\ prev' = IF last.op = "resize" /\ last.nbits < nbits
               THEN [op |-> "resize", nbits |-> last.nbits, data |-> last.data]
               ELSE NoPrev
  /\ query' = NoQuery

\* void reset()
reset ==
  /\ Alive
  /\ _data' = FillZero(_data)
  /\ last' = Mutation("reset", 0, 0, FALSE, "ok")
  /\ prev' = NoPrev
  /\ query' = NoQuery
  /\ UNCHANGED <<_num_bits, sized>>

\* void set(size_t pos, bool value = true)
set(pos, value) ==
  /\ Alive
  /\ IF InStorage(_data, pos)
       THEN /\ _data' = [_data EXCEPT ![byte_loc(pos) + 1] =
                           IF value
                             THEN ByteOr(@, bitfield(offset(pos)))
                             ELSE ByteAnd(@, ByteNot(bitfield(offset(pos))))]
            /\ last' = Mutation("set", 0, pos, value, "ok")
       ELSE /\ _data' = _data
            /\ \E o \in {"oob", "crash"} : last' = Mutation("set", 0, pos, value, o)
  /\ prev' = NoPrev
  /\ query' = NoQuery
  /\ UNCHANGED <<_num_bits, sized>>

\* bool operator[](size_t pos) const
get(pos) ==
  /\ Alive
  /\ IF InStorage(_data, pos)
       THEN query' = [NoQuery EXCEPT !.op = "get", !.pos = pos,
                                     !.retBool = StoredBit(_data, pos)]
       ELSE \/ query' = [NoQuery EXCEPT !.op = "get", !.pos = pos,
                                        !.outcome = "crash"]
            \/ \E b \in BOOLEAN :
                 query' = [NoQuery EXCEPT !.op = "get", !.pos = pos,
                                          !.retBool = b, !.outcome = "oob"]
  /\ UNCHANGED <<_num_bits, _data, sized, last, prev>>

\* uint32_t count()
count ==
  /\ Alive
  /\ LET out == OutOfStorage(_data, _num_bits)
     IN  \/ \E junk \in [out -> BOOLEAN] :
              query' = [NoQuery EXCEPT
                          !.op = "count",
                          !.retCount = count_loop(_data, junk, _num_bits, 0, 0),
                          !.outcome = IF out = {} THEN "ok" ELSE "oob"]
         \/ /\ out # {}
            /\ query' = [NoQuery EXCEPT !.op = "count", !.outcome = "crash"]
  /\ UNCHANGED <<_num_bits, _data, sized, last, prev>>

\* std::string to_string() const
to_string ==
  /\ Alive
  /\ LET out == OutOfStorage(_data, _num_bits)
     IN  \/ \E junk \in [out -> BOOLEAN] :
              query' = [NoQuery EXCEPT
                          !.op = "to_string",
                          !.retStr = to_string_loop(_data, junk, _num_bits, 0, <<>>),
                          !.outcome = IF out = {} THEN "ok" ELSE "oob"]
         \/ /\ out # {}
            /\ query' = [NoQuery EXCEPT !.op = "to_string", !.outcome = "crash"]
  /\ UNCHANGED <<_num_bits, _data, sized, last, prev>>

Next ==
  \/ \E nbits \in Sizes : resize(nbits)
  \/ reset
  \/ \E pos \in Positions, value \in BOOLEAN : set(pos, value)
  \/ \E pos \in Positions : get(pos)
  \/ count
  \/ to_string

Spec == Init /\ [][Next]_vars

----------------------------------------------------------------------------
(* Vocabulary of the properties *)

Min(a, b) == IF a < b THEN a ELSE b

\* number_of_bytes_needed(n) of the data model
number_of_bytes_needed(n) == IF n < 8 THEN 1 ELSE 1 + (n - 8) \div 8

\* whether bit i is stored as 1 in the vector d
BitSetIn(d, i) == InStorage(d, i) /\ StoredBit(d, i)

\* the number of bits stored as 1 in d at positions below n
SetBitsBelow(d, n) == Cardinality({i \in 0 .. (n - 1) : BitSetIn(d, i)})

\* the latest two mutating calls are resize(m) then resize(n) with m < n
ShrinkThenGrow == last.op = "resize" /\ prev.op = "resize"

----------------------------------------------------------------------------
(* C1 *)

\* C1: every logical index below _num_bits has its byte inside _data
\* (_num_bits <= 8 * _data.size()), so set and operator[] on a logical index
\* never touch a byte outside the vector.
C1_LogicalIndicesInStorage ==
  /\ last.op # "default" => _num_bits <= 8 * Len(_data)
  /\ (last.op = "set" /\ last.pos < last.nb) => last.outcome = "ok"
  /\ (query.op = "get" /\ query.pos < _num_bits) => query.outcome = "ok"

(* C2 *)

\* C2: the nbits constructor allocates 1 byte for 7 and 8 bits, 2 bytes for 9
\* and 16 bits, 3 bytes for 17 bits.
C2_ConstructSizes ==
  last.op = "construct" =>
    /\ last.nbits = 7 => Len(_data) = 1
    /\ last.nbits = 8 => Len(_data) = 1
    /\ last.nbits = 9 => Len(_data) = 2
    /\ last.nbits = 16 => Len(_data) = 2
    /\ last.nbits = 17 => Len(_data) = 3

(* C3 *)

\* C3 as stated: in every reachable state, default-constructed ones included,
\* _data.size() = number_of_bytes_needed(_num_bits).
C3_LengthInvariant == Len(_data) = number_of_bytes_needed(_num_bits)

\* C3 amended: once the nbits constructor or resize has run,
\* _data.size() = number_of_bytes_needed(_num_bits); a default-constructed
\* bit set that has not been resized has _num_bits = 0 and an empty _data.
C3_LengthInvariantOnceSized ==
  IF sized
    THEN Len(_data) = number_of_bytes_needed(_num_bits)
    ELSE _num_bits = 0 /\ Len(_data) = 0

\* a default-constructed bit set resized to 9 bits holds one byte
C3_Witness ==
  /\ sized
  /\ last.op = "resize"
  /\ last.data = <<>>
  /\ _num_bits = 9
  /\ Len(_data) = 1

(* C4 *)

\* C4: set(pos, v) with pos < _num_bits makes operator[](pos) return v,
\* leaves every other bit as it was, and leaves _num_bits and _data.size()
\* unchanged.
C4_SetGetRoundTrip ==
  (last.op = "set" /\ last.pos < last.nb) =>
    /\ last.outcome = "ok"
    /\ _num_bits = last.nb
    /\ Len(_data) = Len(last.data)
    /\ BitSetIn(_data, last.pos) = last.value
    /\ \A j \in 0 .. (8 * Len(_data) - 1) :
         j # last.pos => BitSetIn(_data, j) = BitSetIn(last.data, j)
    /\ (query.op = "get" /\ query.pos = last.pos) =>
         (query.outcome = "ok" /\ query.retBool = last.value)

(* C5 *)

\* C5: count() returns the number of positions below _num_bits whose bit is
\* 1, and reads only bytes inside _data.
C5_CountExact ==
  query.op = "count" =>
    /\ query.outcome = "ok"
    /\ query.retCount = SetBitsBelow(_data, _num_bits)

(* C6 *)

\* C6: resize(nbits) sets _num_bits to nbits, keeps the bytes below both the
\* old and the new length, appends zero bytes only, and so operator[](i)
\* keeps its value for every i below both the old and the new _num_bits.
C6_ResizeFrame ==
  last.op = "resize" =>
    /\ _num_bits = last.nbits
    /\ \A k \in 1 .. Min(Len(last.data), Len(_data)) : _data[k] = last.data[k]
    /\ \A k \in (Len(last.data) + 1) .. Len(_data) : _data[k] = 0
    /\ (query.op = "get" /\ query.pos < Min(last.nb, _num_bits)) =>
         /\ query.outcome = "ok"
         /\ query.retBool = BitSetIn(last.data, query.pos)

(* C7 *)

\* C7: to_string() returns _num_bits characters, each '0' or '1', the k-th
\* being '1' exactly when bit _num_bits - 1 - k is 1.
C7_ToStringExact ==
  query.op = "to_string" =>
    /\ query.outcome = "ok"
    /\ Len(query.retStr) = _num_bits
    /\ \A k \in 0 .. (_num_bits - 1) :
         /\ query.retStr[k + 1] \in {"0", "1"}
         /\ (query.retStr[k + 1] = "1") = BitSetIn(_data, _num_bits - 1 - k)

(* C8 *)

\* C8: reset() zeroes every byte and keeps _num_bits and _data.size(), so
\* that count() then returns 0 and operator[](i) is false for all
\* i < _num_bits.
C8_ResetClearsAll ==
  last.op = "reset" =>
    /\ \A k \in 1 .. Len(_data) : _data[k] = 0
    /\ _num_bits = last.nb
    /\ Len(_data) = Len(last.data)
    /\ query.op = "count" => (query.outcome = "ok" /\ query.retCount = 0)
    /\ (query.op = "get" /\ query.pos < _num_bits) =>
         (query.outcome = "ok" /\ query.retBool = FALSE)

(* C9 *)

\* C9: set and operator[] called with pos / 8 >= _data.size() fail with an
\* IndexOutOfRange error and leave _num_bits and every byte unchanged.
C9_OutOfRangeFails ==
  /\ (last.op = "set" /\ ~InStorage(last.data, last.pos)) =>
       /\ last.outcome = "IndexOutOfRange"
       /\ _data = last.data
       /\ _num_bits = last.nb
  /\ (query.op = "get" /\ ~InStorage(_data, query.pos)) =>
       query.outcome = "IndexOutOfRange"

(* C10 *)

====
